---- MODULE Spec2Model ----
(***************************************************************************)
(* Model of the windowed dataset index of physioex                         *)
(* (src/physioex/data/base.py, src/physioex/data/svuh/svuh.py).            *)
(*                                                                         *)
(* Arrays are numpy arrays: 0-based, a negative index counts from the end, *)
(* an index outside [-n, n) raises IndexError, slices are clipped.  A      *)
(* numpy array a of length n is the sequence a with a[i] stored at i + 1.  *)
(***************************************************************************)
EXTENDS Integers, Sequences, FiniteSets, TLC

VARIABLES table, L, disk, split_file, pc, initErr, window_to_subject, subject_to_start, result

\* the dataset class and its remaining fields, the label files, the value the
\* class's __getitem__ returned
VARIABLES kind, picks, target_transform, labels, item

\* the DataLoader workers: position, argument, locals and return value of each
VARIABLES wpc, widx, frame, wres

\* ISRUCPreprocessor: its table of subject ids, what the generator seeded with 42
\* draws, the draws made since the seeding, the sets of the last call and of
\* the call before, the calls made
VARIABLES itable, oracle, rng, isets, iprev, icalls

isrucvars == <<itable, oracle, rng, isets, iprev, icalls>>

extvars == <<kind, picks, target_transform, labels, item, wpc, widx, frame, wres, isrucvars>>

vars == <<table, L, disk, split_file, pc, initErr, window_to_subject, subject_to_start, result, extvars>>

(* ---------------- bounds of the model ---------------- *)
MaxRows == 3
MaxSamples == 5
MaxL == 3
MaxId == 2
MaxRowsAny == 2

(* ---------------- values ---------------- *)
NoSplit == 0 - 1
TRAIN == 0
VALID == 1
TEST == 2

Row(s, n, sp) == [subject_id |-> s, num_samples |-> n, split |-> sp]

NoResult ==
  [op |-> "none", idx |-> 0, err |-> "none", value |-> 0, subject |-> 0,
   rel |-> 0, x |-> <<>>, y |-> <<>>, train |-> <<>>, valid |-> <<>>, test |-> <<>>]

EmptyStarts == [size |-> 0, at |-> <<>>]

(* ---------------- numpy primitives ---------------- *)
ToInt16(v) == ((v + 32768) % 65536) - 32768

\* normalisation of one slice bound against an array of length n
Clip(i, n) ==
  IF i < 0 THEN (IF i + n < 0 THEN 0 ELSE i + n)
  ELSE IF i > n THEN n ELSE i

\* a[i:j] = v
SliceAssign(a, i, j, v) ==
  [k \in 1..Len(a) |->
     IF Clip(i, Len(a)) <= k - 1 /\ k - 1 < Clip(j, Len(a)) THEN v ELSE a[k]]

\* the 0-based positions selected by a[i:j] on an array of length n, in order
SliceRange(i, j, n) ==
  IF Clip(i, n) < Clip(j, n)
  THEN [k \in 1..(Clip(j, n) - Clip(i, n)) |-> Clip(i, n) + k - 1]
  ELSE <<>>

\* a[i] for one integer index: the 1-based position, or 0 for IndexError
Position(i, n) ==
  IF i >= n \/ i < 0 - n THEN 0
  ELSE IF i < 0 THEN i + n + 1 ELSE i + 1

\* np.zeros(n, dtype=...)
Zeros(n) == [k \in 1..n |-> 0]

\* np.arange(start, stop)
Arange(start, stop) ==
  IF stop > start THEN [k \in 1..(stop - start) |-> start + k - 1] ELSE <<>>

\* subject_to_start is np.zeros(size); only the written entries are stored
StartsGet(s2s, i) ==
  LET p == Position(i, s2s.size)
  IN  IF p = 0 THEN [err |-> "IndexError", value |-> 0]
      ELSE [err |-> "none",
            value |-> IF p - 1 \in DOMAIN s2s.at THEN s2s.at[p - 1] ELSE 0]

StartsSet(s2s, i, v) ==
  LET p == Position(i, s2s.size)
  IN  [size |-> s2s.size,
       at |-> [k \in (DOMAIN s2s.at) \cup {p - 1} |->
                 IF k = p - 1 THEN v ELSE s2s.at[k]]]

(* ---------------- create_subject_index_map ---------------- *)
RECURSIVE SumWindows(_, _, _)
\* (df["num_samples"] - sequence_length + 1).sum(), rows k..len
SumWindows(df, sequence_length, k) ==
  IF k > Len(df) THEN 0
  ELSE (df[k].num_samples - sequence_length + 1)
       + SumWindows(df, sequence_length, k + 1)

RECURSIVE MaxSubjectId(_, _)
MaxSubjectId(df, k) ==
  IF k = Len(df) THEN df[k].subject_id
  ELSE LET m == MaxSubjectId(df, k + 1)
       IN  IF df[k].subject_id > m THEN df[k].subject_id ELSE m

RECURSIVE FillIndex(_, _, _, _, _, _)
\* the loop over df.iterrows(), from row k on
FillIndex(df, sequence_length, k, w2s, s2s, start_index) ==
  IF k > Len(df) THEN [err |-> "none", window_to_subject |-> w2s, subject_to_start |-> s2s]
  ELSE LET subject == df[k].subject_id
           num_windows == df[k].num_samples - sequence_length + 1
       IN  FillIndex(df, sequence_length, k + 1,
                     SliceAssign(w2s, start_index, start_index + num_windows, ToInt16(subject)),
                     StartsSet(s2s, subject, start_index),
                     start_index + num_windows)

create_subject_index_map(df, sequence_length) ==
  LET max_windows == SumWindows(df, sequence_length, 1)
      failed == [err |-> "ValueError", window_to_subject |-> <<>>, subject_to_start |-> EmptyStarts]
  IN  IF max_windows < 0 THEN failed                \* np.zeros(negative)
      ELSE IF Len(df) = 0 THEN failed               \* max() of an empty column is nan
      ELSE FillIndex(df, sequence_length, 1, Zeros(max_windows),
                     [size |-> MaxSubjectId(df, 1) + 1, at |-> <<>>], 0)

(* ---------------- find_subject_for_window ---------------- *)
find_subject_for_window(index, w2s, s2s) ==
  LET p == Position(index, Len(w2s))
  IN  IF p = 0 THEN [err |-> "IndexError", subject |-> 0, rel |-> 0]
      ELSE LET subject == w2s[p]
               st == StartsGet(s2s, subject)
           IN  IF st.err # "none" THEN [err |-> st.err, subject |-> subject, rel |-> 0]
               ELSE [err |-> "none", subject |-> subject, rel |-> index - st.value]

(* ---------------- PhysioExDataset ---------------- *)
\* PhysioExDataset.__len__
DatasetLen(tbl, seqlen) == SumWindows(tbl, seqlen, 1)

RECURSIVE FirstRow(_, _, _)
\* self.table[self.table["subject_id"] == subject_id]: first matching row, 0 if none
FirstRow(tbl, subject_id, k) ==
  IF k > Len(tbl) THEN 0
  ELSE IF tbl[k].subject_id = subject_id THEN k
  ELSE FirstRow(tbl, subject_id, k + 1)

\* np.memmap(path, mode="r", shape=(num_samples, ...))[rel : rel + L] on a file
\* that holds `records` records: the 0-based records read
Memmap(records, num_samples, rel, seqlen) ==
  IF records < num_samples THEN [err |-> "ValueError", read |-> <<>>]  \* mmap longer than the file
  ELSE IF records = 0 THEN [err |-> "ValueError", read |-> <<>>]       \* cannot mmap an empty file
  ELSE [err |-> "none", read |-> SliceRange(rel, rel + seqlen, num_samples)]

\* PhysioExDataset.__getitem__: x and y are the record numbers read from the
\* channel files and from the label file of result.subject
getitem(idx, tbl, seqlen, files, w2s, s2s) ==
  LET loc == find_subject_for_window(idx, w2s, s2s)
      base == [NoResult EXCEPT !.op = "getitem", !.idx = idx]
  IN  IF loc.err # "none" THEN [base EXCEPT !.err = loc.err]
      ELSE LET r == FirstRow(tbl, loc.subject, 1)
               located == [base EXCEPT !.subject = loc.subject, !.rel = loc.rel]
           IN  IF r = 0 THEN [located EXCEPT !.err = "IndexError"]  \* .values[0] of no row
               ELSE LET fp == Memmap(files[loc.subject], tbl[r].num_samples, loc.rel, seqlen)
                    IN  IF fp.err # "none" THEN [located EXCEPT !.err = fp.err]
                        ELSE [located EXCEPT !.x = fp.read, !.y = fp.read]

RECURSIVE CollectSplit(_, _, _, _, _)
\* the per-class lists of get_sets concatenated, rows k..len, class sp
CollectSplit(tbl, seqlen, s2s, sp, k) ==
  IF k > Len(tbl) THEN <<>>
  ELSE LET start_index == StartsGet(s2s, tbl[k].subject_id).value
           num_windows == tbl[k].num_samples - seqlen + 1
           indices == Arange(start_index, start_index + num_windows)
       IN  (IF tbl[k].split = sp THEN indices ELSE <<>>)
           \o CollectSplit(tbl, seqlen, s2s, sp, k + 1)

\* np.concatenate of an empty list raises ValueError
HasClass(tbl, sp) == \E k \in 1..Len(tbl) : tbl[k].split = sp

\* PhysioExDataset.get_sets
get_sets(tbl, seqlen, s2s) ==
  LET base == [NoResult EXCEPT !.op = "get_sets"]
  IN  IF \E k \in 1..Len(tbl) : tbl[k].split = NoSplit
        THEN [base EXCEPT !.err = "KeyError"]               \* row["split"]: no such column
      ELSE IF ~ (HasClass(tbl, TRAIN) /\ HasClass(tbl, VALID) /\ HasClass(tbl, TEST))
        THEN [base EXCEPT !.err = "ValueError"]
      ELSE [base EXCEPT !.train = CollectSplit(tbl, seqlen, s2s, TRAIN, 1),
                        !.valid = CollectSplit(tbl, seqlen, s2s, VALID, 1),
                        !.test = CollectSplit(tbl, seqlen, s2s, TEST, 1)]

(* ---------------- Svuh.split ---------------- *)
Int16Set(S) == {ToInt16(v) : v \in S}

\* the split column: zeros, then 2 for the test subjects, then 1 for the valid ones
\* (train_subjects is loaded and never used)
split(tbl, train_subjects, valid_subjects, test_subjects) ==
  [k \in 1..Len(tbl) |->
     [tbl[k] EXCEPT !.split =
        IF tbl[k].subject_id \in Int16Set(valid_subjects) THEN VALID
        ELSE IF tbl[k].subject_id \in Int16Set(test_subjects) THEN TEST
        ELSE TRAIN]]

(* ---------------- the dataset classes ---------------- *)
\* the channels of the Svuh scaling file, in the file's order
Channels == <<"EEG", "EOG", "EMG", "ECG">>

InPicks(c, pk) == \E i \in 1..Len(pk) : pk[i] = c

IsChannel(c) == InPicks(c, Channels)

\* Svuh.__init__: self.mean and self.std, one entry appended per channel test
svuh_scaling(pk) == SelectSeq(Channels, LAMBDA c : InPicks(c, pk))

\* (x - self.mean) / self.std: the channel axis of x against the entries of
\* self.mean and self.std (broadcast when they hold one entry)
Normalize(x, mean, std) ==
  IF Len(mean) = Len(x)
    THEN [err |-> "none",
          x |-> [i \in 1..Len(x) |-> [x[i] EXCEPT !.mean = mean[i], !.std = std[i]]]]
  ELSE IF Len(mean) = 1
    THEN [err |-> "none",
          x |-> [i \in 1..Len(x) |-> [x[i] EXCEPT !.mean = mean[1], !.std = std[1]]]]
  ELSE [err |-> "RuntimeError", x |-> <<>>]

\* a registered label transform: "mid" keeps the label of the middle epoch
Transform(tt, y) ==
  IF tt = "None" THEN [err |-> "none", y |-> y]
  ELSE IF Len(y) = 0 THEN [err |-> "IndexError", y |-> <<>>]
  ELSE [err |-> "none", y |-> <<y[(Len(y) \div 2) + 1]>>]

NoItem == [op |-> "none", err |-> "none", idx |-> 0, subject |-> 0, rel |-> 0, x |-> <<>>, y |-> <<>>]

\* what PhysioExDataset.__getitem__ returns once the records b.x, b.y are read:
\* one entry of x per pick, the labels of the label file
base_item(b, pk, lab) ==
  [op |-> b.op, err |-> b.err, idx |-> b.idx, subject |-> b.subject, rel |-> b.rel,
   x |-> IF b.err = "none"
         THEN [i \in 1..Len(pk) |->
                 [data |-> pk[i], records |-> b.x, mean |-> "none", std |-> "none"]]
         ELSE <<>>,
   y |-> IF b.err = "none"
         THEN [i \in 1..Len(b.y) |-> lab[b.subject][b.y[i] + 1]]
         ELSE <<>>]

\* Isruc.__getitem__ on the item x, y of super().__getitem__
isruc_item(it, pk, tt) ==
  LET n == Normalize(it.x, pk, pk)
      t == Transform(tt, it.y)
  IN  IF it.err # "none" THEN it
      ELSE IF n.err # "none" THEN [it EXCEPT !.err = n.err, !.x = <<>>, !.y = <<>>]
      ELSE IF t.err # "none" THEN [it EXCEPT !.err = t.err, !.x = <<>>, !.y = <<>>]
      ELSE [it EXCEPT !.x = n.x, !.y = t.y]

\* y = y - 1 of Svuh.__getitem__: the stage codes of its label files start at 1
svuh_decode(y) == [i \in 1..Len(y) |-> y[i] - 1]

\* Svuh.__getitem__ on the item x, y of super().__getitem__
svuh_item(it, pk, tt) ==
  LET y1 == svuh_decode(it.y)
      n == Normalize(it.x, svuh_scaling(pk), svuh_scaling(pk))
      t == Transform(tt, y1)
  IN  IF it.err # "none" THEN it
      ELSE IF n.err # "none" THEN [it EXCEPT !.err = n.err, !.x = <<>>, !.y = <<>>]
      ELSE IF t.err # "none" THEN [it EXCEPT !.err = t.err, !.x = <<>>, !.y = <<>>]
      ELSE [it EXCEPT !.x = n.x, !.y = t.y]

\* the override of __getitem__ of the class knd on the item of the base class
class_item(knd, it, pk, tt) ==
  IF knd = "svuh" THEN svuh_item(it, pk, tt)
  ELSE IF knd = "isruc" THEN isruc_item(it, pk, tt)
  ELSE it

\* dataset[idx] of the class knd
class_getitem(knd, idx, tbl, seqlen, files, w2s, s2s, pk, tt, lab) ==
  class_item(knd, base_item(getitem(idx, tbl, seqlen, files, w2s, s2s), pk, lab), pk, tt)

\* sleep stage codes of the label files
NumStages == 5

\* label files: the stage of record i of subject s, one store per shift k
LabelStore(tbl, k) ==
  [s \in {tbl[r].subject_id : r \in 1..Len(tbl)} |->
     [i \in 1..(MaxSamples + 1) |-> ((s + i + k) % NumStages) + 1]]

Workers == {"w1", "w2"}

NoFrame == [subject |-> 0, rel |-> 0, num_samples |-> 0]

NoSets == [train |-> <<>>, valid |-> <<>>, test |-> <<>>]

\* no preprocessor
IsrucIdle ==
  /\ itable = <<>>
  /\ oracle = <<>>
  /\ rng = 0
  /\ isets = NoSets
  /\ iprev = NoSets
  /\ icalls = 0

\* the fields the read path and the split path do not use
ExtInit ==
  /\ kind = "base"
  /\ picks = <<"EEG">>
  /\ target_transform = "None"
  /\ labels = <<>>
  /\ item = NoItem
  /\ wpc = [w \in Workers |-> "idle"]
  /\ widx = [w \in Workers |-> 0]
  /\ frame = [w \in Workers |-> NoFrame]
  /\ wres = [w \in Workers |-> NoItem]
  /\ IsrucIdle

(* ---------------- inputs ---------------- *)
Ids == 0..MaxId
Lengths == 1..MaxL

DistinctIds(tbl) ==
  \A i, j \in 1..Len(tbl) : i # j => tbl[i].subject_id # tbl[j].subject_id

\* tables of at most `rows` rows over the given ids and sample counts, split column absent
TablesOver(rows, ids, counts) ==
  UNION {[1..k -> {Row(s, n, NoSplit) : s \in ids, n \in counts}] : k \in 0..rows}

\* the Binary Epoch Store as preprocessing wrote it: num_samples records per subject
DiskOf(tbl) ==
  [s \in {tbl[k].subject_id : k \in 1..Len(tbl)} |->
     IF tbl[FirstRow(tbl, s, 1)].num_samples < 0 THEN 0
     ELSE tbl[FirstRow(tbl, s, 1)].num_samples]

\* the content of the split file: pairwise disjoint arrays of subject ids, whose
\* union need not hold every subject
NoSplitFile == [train_subjects |-> {}, valid_subjects |-> {}, test_subjects |-> {}]

SplitFiles ==
  {[train_subjects |-> {s \in Ids : f[s] = TRAIN},
    valid_subjects |-> {s \in Ids : f[s] = VALID},
    test_subjects |-> {s \in Ids : f[s] = TEST}] : f \in [Ids -> {NoSplit, TRAIN, VALID, TEST}]}

(* ---------------- the state machine ---------------- *)
Init ==
  /\ table \in {t \in TablesOver(MaxRows, Ids, 0..MaxSamples) : DistinctIds(t)}
  /\ L \in Lengths
  /\ disk = DiskOf(table)
  /\ split_file = NoSplitFile
  /\ pc = "new"
  /\ initErr = "none"
  /\ window_to_subject = <<>>
  /\ subject_to_start = EmptyStarts
  /\ result = NoResult
  /\ ExtInit

\* PhysioExDataset.__init__ / Svuh.__init__: build the Window Index
Construct ==
  /\ pc = "new"
  /\ LET m == create_subject_index_map(table, L)
     IN  /\ pc' = IF m.err = "none" THEN "ready" ELSE "failed"
         /\ initErr' = m.err
         /\ window_to_subject' = m.window_to_subject
         /\ subject_to_start' = m.subject_to_start
  /\ UNCHANGED <<table, L, disk, split_file, result>>
  /\ UNCHANGED extvars

\* the dataset exists: __init__ returned
Constructed == pc \in {"ready", "split"}

\* len(dataset)
Length ==
  /\ Constructed
  /\ result' = [NoResult EXCEPT !.op = "len", !.value = DatasetLen(table, L)]
  /\ UNCHANGED <<table, L, disk, split_file, pc, initErr, window_to_subject, subject_to_start>>
  /\ UNCHANGED extvars

\* dataset[idx]
GetItem ==
  /\ Constructed
  /\ \E idx \in (0 - 2)..(DatasetLen(table, L) + 1) :
       result' = getitem(idx, table, L, disk, window_to_subject, subject_to_start)
  /\ UNCHANGED <<table, L, disk, split_file, pc, initErr, window_to_subject, subject_to_start>>
  /\ UNCHANGED extvars

\* TimeDistributedModule.__init__, first step: self.dataset.split(fold);
\* np.load reads the split file f
Split ==
  /\ pc = "ready"
  /\ pc' = "split"
  /\ \E f \in SplitFiles :
       /\ split_file' = f
       /\ table' = split(table, f.train_subjects, f.valid_subjects, f.test_subjects)
  /\ result' = [NoResult EXCEPT !.op = "split"]
  /\ UNCHANGED <<L, disk, initErr, window_to_subject, subject_to_start>>
  /\ UNCHANGED extvars

\* TimeDistributedModule.__init__, second step: self.dataset.get_sets()
GetSets ==
  /\ pc = "split"
  /\ result' = get_sets(table, L, subject_to_start)
  /\ UNCHANGED <<table, L, disk, split_file, pc, initErr, window_to_subject, subject_to_start>>
  /\ UNCHANGED extvars

\* the read path: construction, len(dataset), dataset[idx]
Next == Construct \/ Length \/ GetItem

Spec == Init /\ [][Next]_vars

\* the split path: construction, dataset.split(), dataset.get_sets()
NextSplit == Construct \/ Split \/ GetSets

SpecSplit == Init /\ [][NextSplit]_vars

\* construction on any configuration, malformed ones included
InitAny ==
  /\ table \in TablesOver(MaxRowsAny, Ids, (0 - 1)..MaxSamples)
  /\ L \in (0 - 1)..MaxL
  /\ disk = DiskOf(table)
  /\ split_file = NoSplitFile
  /\ pc = "new"
  /\ initErr = "none"
  /\ window_to_subject = <<>>
  /\ subject_to_start = EmptyStarts
  /\ result = NoResult
  /\ ExtInit

NextAny == Construct \/ Length

SpecAny == InitAny /\ [][NextAny]_vars

(***************************************************************************)
(* The claims.  What the specification expects of the Window Index is      *)
(* stated with the operators below, independently of the code above.       *)
(***************************************************************************)
\* windows_s = max(0, num_samples_s - L + 1)
Windows(n, seqlen) == IF n - seqlen + 1 > 0 THEN n - seqlen + 1 ELSE 0

RECURSIVE WindowsBefore(_, _, _)
\* sum of windows_s over the first k rows
WindowsBefore(tbl, seqlen, k) ==
  IF k = 0 THEN 0
  ELSE WindowsBefore(tbl, seqlen, k - 1) + Windows(tbl[k].num_samples, seqlen)

TotalWindows(tbl, seqlen) == WindowsBefore(tbl, seqlen, Len(tbl))

Rows == 1..Len(table)

StartOf(k) == StartsGet(subject_to_start, table[k].subject_id).value

\* window_to_subject[w] for a 0-based w inside the array
OwnerOf(w) == window_to_subject[w + 1]

\* the table without its row k
WithoutRow(tbl, k) == [i \in 1..(Len(tbl) - 1) |-> IF i < k THEN tbl[i] ELSE tbl[i + 1]]

ToSet(q) == {q[i] : i \in 1..Len(q)}

\* C1: len(dataset) and the length of window_to_subject both equal the sum over
\* the subjects of max(0, num_samples - L + 1).
C1_LengthIsSumOfWindows ==
  (Constructed /\ result.op = "len") =>
     /\ result.value = TotalWindows(table, L)
     /\ Len(window_to_subject) = TotalWindows(table, L)

\* C2: the window ids [0, total) are partitioned into per-subject blocks in table
\* order: subject k owns exactly the max(0, num_samples - L + 1) consecutive ids
\* from subject_to_start, which is the number of windows of the rows before it.
C2_BlocksPartitionInTableOrder ==
  Constructed =>
     /\ Len(window_to_subject) = TotalWindows(table, L)
     /\ \A k \in Rows :
          Windows(table[k].num_samples, L) > 0 =>
             /\ StartOf(k) = WindowsBefore(table, L, k - 1)
             /\ \A r \in 0..(Windows(table[k].num_samples, L) - 1) :
                  /\ StartOf(k) + r \in 0..(Len(window_to_subject) - 1)
                  /\ OwnerOf(StartOf(k) + r) = table[k].subject_id

\* C3: round trip: for every subject s with num_samples >= L and every r in
\* [0, num_samples - L + 1), the Window Locator maps subject_to_start[s] + r to (s, r).
C3_LocatorRoundTrip ==
  Constructed =>
     \A k \in Rows :
        table[k].num_samples >= L =>
           \A r \in 0..(table[k].num_samples - L) :
              find_subject_for_window(StartOf(k) + r, window_to_subject, subject_to_start)
                = [err |-> "none", subject |-> table[k].subject_id, rel |-> r]

\* C4: a subject with num_samples < L contributes no window: its id is nowhere in
\* window_to_subject, and every subject after it has the start index and the
\* window block it has when the short subject is absent from the table.
C4_ShortSubjectContributesNothing ==
  Constructed =>
     \A k \in Rows :
        table[k].num_samples < L =>
           /\ \A w \in 0..(Len(window_to_subject) - 1) : OwnerOf(w) # table[k].subject_id
           /\ \A j \in Rows :
                j > k =>
                   LET m == create_subject_index_map(WithoutRow(table, k), L)
                   IN  /\ m.err = "none"
                       /\ StartsGet(m.subject_to_start, table[j].subject_id).value = StartOf(j)
                       /\ m.window_to_subject = window_to_subject

\* C5: for every window id w in [0, len(dataset)), dataset[w] succeeds and returns
\* exactly L epochs and L labels: the epochs [r, r + L) of the one owning subject,
\* with r >= 0 and r + L <= num_samples of that subject.
C5_GetReturnsOneSubjectsWindow ==
  (result.op = "getitem" /\ result.idx >= 0 /\ result.idx < DatasetLen(table, L)) =>
     /\ result.err = "none"
     /\ Len(result.x) = L
     /\ Len(result.y) = L
     /\ result.rel >= 0
     /\ \E k \in Rows :
          /\ table[k].subject_id = result.subject
          /\ result.rel + L <= table[k].num_samples
     /\ \A i \in 1..Len(result.x) : result.x[i] = result.rel + i - 1
     /\ \A i \in 1..Len(result.y) : result.y[i] = result.rel + i - 1

\* C6: dataset[w] fails with an index error, returning no data, for every w that
\* is negative or >= the total window count.
C6_OutOfRangeFails ==
  (result.op = "getitem" /\ (result.idx < 0 \/ result.idx >= Len(window_to_subject))) =>
     result.err = "IndexError"

\* the rows whose split label is sp
RowsOfSplit(sp) == {k \in Rows : table[k].split = sp}

\* every window id of q resolves, through the Window Locator, to a subject labelled sp
ResolvesTo(q, sp) ==
  \A w \in ToSet(q) :
     LET loc == find_subject_for_window(w, window_to_subject, subject_to_start)
     IN  /\ loc.err = "none"
         /\ \E k \in RowsOfSplit(sp) : table[k].subject_id = loc.subject

\* C7: after split(), the train, validation and test window-id sets of get_sets()
\* are pairwise disjoint and every id of a set resolves to a subject whose split
\* label is that of the set.
C7_SplitSetsDisjointAndMatching ==
  (result.op = "get_sets" /\ result.err = "none") =>
     /\ ToSet(result.train) \cap ToSet(result.valid) = {}
     /\ ToSet(result.train) \cap ToSet(result.test) = {}
     /\ ToSet(result.valid) \cap ToSet(result.test) = {}
     /\ ResolvesTo(result.train, TRAIN)
     /\ ResolvesTo(result.valid, VALID)
     /\ ResolvesTo(result.test, TEST)

\* the table of the scenario: subject 0, 5 epochs, train; subject 1, 3 epochs, test
ScenarioTable == <<Row(0, 5, TRAIN), Row(1, 3, TEST)>>

\* C8: for the table [{0, 5, train}, {1, 3, test}] and L = 3, len(dataset) is 4, the
\* Window Locator maps 3 to (1, 0), and get_sets() returns train {0, 1, 2}, test {3}
\* and an empty validation set without failing.
C8_ScenarioSets ==
  (table = ScenarioTable /\ L = 3 /\ result.op = "get_sets") =>
     /\ DatasetLen(table, L) = 4
     /\ find_subject_for_window(3, window_to_subject, subject_to_start)
          = [err |-> "none", subject |-> 1, rel |-> 0]
     /\ result.err = "none"
     /\ result.train = <<0, 1, 2>>
     /\ result.valid = <<>>
     /\ result.test = <<3>>

\* the rows of the subjects that none of the three arrays of the split file lists
Unassigned ==
  {k \in Rows : table[k].subject_id \notin
     (split_file.train_subjects \cup split_file.valid_subjects \cup split_file.test_subjects)}

\* the window ids of row k
WindowIdsOf(k) == {StartOf(k) + r : r \in 0..(Windows(table[k].num_samples, L) - 1)}

\* C9: a subject listed in none of the train, validation and test arrays of the
\* split file has none of its window ids in any of the three sets of get_sets().
C9_UnassignedInNoSet ==
  (result.op = "get_sets" /\ result.err = "none") =>
     \A k \in Unassigned :
        WindowIdsOf(k) \cap
          (ToSet(result.train) \cup ToSet(result.valid) \cup ToSet(result.test)) = {}

\* a configuration the Window Index Builder has to refuse
Malformed ==
  \/ L <= 0
  \/ ~ DistinctIds(table)
  \/ \E k \in Rows : table[k].num_samples < 0

\* C10: building the Window Index fails, producing no index, whenever
\* sequence_length <= 0, or two rows have the same subject_id, or a num_samples
\* is negative.
C10_MalformedConfigurationFails ==
  (pc # "new" /\ Malformed) => (pc = "failed" /\ initErr # "none")

(* ---------------- a store that disagrees with the table ---------------- *)
\* record counts of the files of a subject with n rows in the table: one record
\* fewer, as many, or one more
RecordCounts(n) == {c \in {n - 1, n, n + 1} : c >= 0}

StoresOf(tbl) ==
  {f \in [{tbl[k].subject_id : k \in 1..Len(tbl)} -> 0..(MaxSamples + 1)] :
     \A k \in 1..Len(tbl) : f[tbl[k].subject_id] \in RecordCounts(tbl[k].num_samples)}

InitStore ==
  /\ table \in {t \in TablesOver(MaxRowsAny, Ids, 0..MaxSamples) : DistinctIds(t)}
  /\ L \in Lengths
  /\ disk \in StoresOf(table)
  /\ split_file = NoSplitFile
  /\ pc = "new"
  /\ initErr = "none"
  /\ window_to_subject = <<>>
  /\ subject_to_start = EmptyStarts
  /\ result = NoResult
  /\ ExtInit

SpecStore == InitStore /\ [][Next]_vars

\* the call reached the files of result.subject, row k of the table
ReadsRow(k) ==
  /\ result.op = "getitem"
  /\ find_subject_for_window(result.idx, window_to_subject, subject_to_start).err = "none"
  /\ result.idx >= 0
  /\ table[k].subject_id = result.subject

\* C11: dataset[w] fails, returning no data, whenever the files of the owning
\* subject hold fewer or more records than its num_samples in the table.
C11_RecordCountMismatchFails ==
  \A k \in Rows :
     (ReadsRow(k) /\ disk[table[k].subject_id] # table[k].num_samples) =>
        result.err # "none"

\* the subject ids of the split file
FileIds ==
  split_file.train_subjects \cup split_file.valid_subjects \cup split_file.test_subjects

\* C12: split() fails when the split file lists a subject id that is not in the
\* table: it never completes on such a file.
C12_ForeignIdInSplitFileFails ==
  (pc = "split" /\ result.op = "split") =>
     FileIds \subseteq {table[k].subject_id : k \in Rows}

(* ---------------- the dataset classes: dataset[idx] ---------------- *)
SmallRows == 2
SmallId == 1
SmallSamples == 3
SmallL == 2
MaxPicks == 2

SmallTables ==
  {t \in TablesOver(SmallRows, 0..SmallId, 0..SmallSamples) : DistinctIds(t)}

\* selection lists: channels in any order, none twice
PickLists ==
  {p \in UNION {[1..k -> {Channels[i] : i \in 1..Len(Channels)}] : k \in 1..MaxPicks} :
     \A i, j \in 1..Len(p) : i # j => p[i] # p[j]}

\* Isruc accepts AVAILABLE_PICKS only
PicksOf(knd) == IF knd = "isruc" THEN {<<"EEG">>} ELSE PickLists

InitClass ==
  /\ table \in SmallTables
  /\ L \in 1..SmallL
  /\ disk = DiskOf(table)
  /\ split_file = NoSplitFile
  /\ pc = "new"
  /\ initErr = "none"
  /\ window_to_subject = <<>>
  /\ subject_to_start = EmptyStarts
  /\ result = NoResult
  /\ kind \in {"base", "isruc", "svuh"}
  /\ picks \in PicksOf(kind)
  /\ target_transform \in {"None", "mid"}
  /\ labels \in {LabelStore(table, k) : k \in 0..(NumStages - 1)}
  /\ item = NoItem
  /\ wpc = [w \in Workers |-> "idle"]
  /\ widx = [w \in Workers |-> 0]
  /\ frame = [w \in Workers |-> NoFrame]
  /\ wres = [w \in Workers |-> NoItem]
  /\ IsrucIdle

\* dataset[idx] on an instance of the class kind
GetItemOf ==
  /\ Constructed
  /\ \E idx \in (0 - 1)..DatasetLen(table, L) :
       item' = class_getitem(kind, idx, table, L, disk, window_to_subject,
                             subject_to_start, picks, target_transform, labels)
  /\ UNCHANGED <<table, L, disk, split_file, pc, initErr, window_to_subject,
                 subject_to_start, result>>
  /\ UNCHANGED <<kind, picks, target_transform, labels, wpc, widx, frame, wres, isrucvars>>

NextClass == Construct \/ GetItemOf

SpecClass == InitClass /\ [][NextClass]_vars

\* the labels the label file of the owning subject holds at the window of item
LabelsRead ==
  LET b == getitem(item.idx, table, L, disk, window_to_subject, subject_to_start)
  IN  [i \in 1..Len(b.y) |-> labels[b.subject][b.y[i] + 1]]

\* the stage labels those are: Svuh counts its stages from 0
StagesRead == IF kind = "svuh" THEN svuh_decode(LabelsRead) ELSE LabelsRead

\* C14: when a label transform is registered, the labels dataset[w] returns are
\* the transform applied to the L labels read from the label file at the window's
\* offset, for PhysioExDataset, Isruc and Svuh alike.
C14_TransformAppliedToLabelsRead ==
  (item.op = "getitem" /\ item.err = "none" /\ target_transform # "None"
     /\ item.idx >= 0) =>
     item.y = Transform(target_transform, StagesRead).y

\* C15: in Svuh, channel i of the returned tensor is the data of picks[i]
\* normalised with the mean and the standard deviation of picks[i].
C15_ChannelNormalisedWithOwnScaling ==
  (kind = "svuh" /\ item.op = "getitem" /\ item.err = "none" /\ item.idx >= 0) =>
     /\ Len(item.x) = Len(picks)
     /\ \A i \in 1..Len(item.x) :
          /\ item.x[i].data = picks[i]
          /\ item.x[i].mean = picks[i]
          /\ item.x[i].std = picks[i]

(* ---------------- DataLoader workers calling dataset[idx] ---------------- *)
\* the locals kept in one place for all the calls, as fields of the dataset would be
SharedFrame(w) == "w1"

\* every call of __getitem__ has its own locals
Frame(w) == w

\* the locals of the call worker w is in
Locals(w) == frame[Frame(w)]

WorkerRows == 2
WorkerSamples == 2

\* the datasets the workers are given: constructed, Window Index built
InitWorkers ==
  /\ table \in {t \in TablesOver(WorkerRows, 0..SmallId, 0..WorkerSamples) : DistinctIds(t)}
  /\ L \in 1..SmallL
  /\ create_subject_index_map(table, L).err = "none"
  /\ window_to_subject = create_subject_index_map(table, L).window_to_subject
  /\ subject_to_start = create_subject_index_map(table, L).subject_to_start
  /\ disk = DiskOf(table)
  /\ split_file = NoSplitFile
  /\ pc = "ready"
  /\ initErr = "none"
  /\ result = NoResult
  /\ kind = "svuh"
  /\ picks = <<"EEG">>
  /\ target_transform \in {"None", "mid"}
  /\ labels = LabelStore(table, 0)
  /\ item = NoItem
  /\ wpc = [w \in Workers |-> "idle"]
  /\ widx = [w \in Workers |-> 0]
  /\ frame = [w \in Workers |-> NoFrame]
  /\ wres = [w \in Workers |-> NoItem]
  /\ IsrucIdle

shared == <<table, L, disk, split_file, pc, initErr, window_to_subject,
            subject_to_start, result, kind, picks, target_transform, labels, item,
            isrucvars>>

\* what the call of worker w returns from the records `read`, or the error it raises
Returned(w, err, read) ==
  class_item(kind,
             base_item([NoResult EXCEPT !.op = "getitem", !.idx = widx[w], !.err = err,
                                        !.subject = Locals(w).subject,
                                        !.rel = Locals(w).rel,
                                        !.x = read, !.y = read],
                       picks, labels),
             picks, target_transform)

\* the sampler hands worker w the next window id
WCall(w) ==
  /\ wpc[w] \in {"idle", "done"}
  /\ \E idx \in (0 - 1)..DatasetLen(table, L) : widx' = [widx EXCEPT ![w] = idx]
  /\ wpc' = [wpc EXCEPT ![w] = "locate"]
  /\ wres' = [wres EXCEPT ![w] = NoItem]
  /\ frame' = [frame EXCEPT ![Frame(w)] = NoFrame]
  /\ UNCHANGED shared

\* subject_id, relative_id = find_subject_for_window(idx, ...)
WLocate(w) ==
  /\ wpc[w] = "locate"
  /\ LET loc == find_subject_for_window(widx[w], window_to_subject, subject_to_start)
     IN  IF loc.err # "none"
         THEN /\ wres' = [wres EXCEPT ![w] = Returned(w, loc.err, <<>>)]
              /\ wpc' = [wpc EXCEPT ![w] = "done"]
              /\ frame' = [frame EXCEPT ![Frame(w)] = NoFrame]
         ELSE /\ frame' = [frame EXCEPT ![Frame(w)] =
                             [@ EXCEPT !.subject = loc.subject, !.rel = loc.rel]]
              /\ wpc' = [wpc EXCEPT ![w] = "lookup"]
              /\ UNCHANGED wres
  /\ UNCHANGED <<shared, widx>>

\* subject_num_samples = self.table[...]["num_samples"].values[0]
WLookup(w) ==
  /\ wpc[w] = "lookup"
  /\ LET r == FirstRow(table, Locals(w).subject, 1)
     IN  IF r = 0
         THEN /\ wres' = [wres EXCEPT ![w] = Returned(w, "IndexError", <<>>)]
              /\ wpc' = [wpc EXCEPT ![w] = "done"]
              /\ frame' = [frame EXCEPT ![Frame(w)] = NoFrame]
         ELSE /\ frame' = [frame EXCEPT ![Frame(w)] =
                             [@ EXCEPT !.num_samples = table[r].num_samples]]
              /\ wpc' = [wpc EXCEPT ![w] = "read"]
              /\ UNCHANGED wres
  /\ UNCHANGED <<shared, widx>>

\* the np.memmap reads, then the class's own part of __getitem__, and the return
WRead(w) ==
  /\ wpc[w] = "read"
  /\ LET fp == Memmap(disk[Locals(w).subject], Locals(w).num_samples, Locals(w).rel, L)
     IN  wres' = [wres EXCEPT ![w] = Returned(w, fp.err, fp.read)]
  /\ wpc' = [wpc EXCEPT ![w] = "done"]
  /\ frame' = [frame EXCEPT ![Frame(w)] = NoFrame]
  /\ UNCHANGED <<shared, widx>>

NextWorkers == \E w \in Workers : WCall(w) \/ WLocate(w) \/ WLookup(w) \/ WRead(w)

SpecWorkers == InitWorkers /\ [][NextWorkers]_vars

\* a finished call of worker w returned what the same call returns when run alone
AsAlone(w) ==
  wpc[w] = "done" =>
     wres[w] = class_getitem(kind, widx[w], table, L, disk, window_to_subject,
                             subject_to_start, picks, target_transform, labels)

\* C13: dataset[w] leaves the table, the Window Index, the sequence length and the
\* store unchanged, and under any interleaving of the calls of several workers
\* each call returns what it returns when run alone.
C13_GetIsSideEffectFree ==
  /\ [](\A w \in Workers : AsAlone(w))
  /\ [][table' = table /\ L' = L /\ disk' = disk /\ labels' = labels
        /\ window_to_subject' = window_to_subject
        /\ subject_to_start' = subject_to_start]_vars

\* two workers have finished calls for different windows of one subject, with data
C13_TwoCallsFinished ==
  /\ wpc["w1"] = "done" /\ wpc["w2"] = "done"
  /\ widx["w1"] # widx["w2"]
  /\ wres["w1"].err = "none" /\ wres["w2"].err = "none"
  /\ wres["w1"].subject = wres["w2"].subject
  /\ Len(wres["w1"].y) > 0 /\ Len(wres["w2"].y) > 0

(* ---------------- subject ids around the int16 range ---------------- *)
\* subject ids below and above the largest np.int16
WideIds == {0, 1, 32767, 32768}

InitWide ==
  /\ table \in {t \in TablesOver(SmallRows, WideIds, 1..SmallSamples) : DistinctIds(t)}
  /\ L \in 1..SmallL
  /\ disk = DiskOf(table)
  /\ split_file = NoSplitFile
  /\ pc = "new"
  /\ initErr = "none"
  /\ window_to_subject = <<>>
  /\ subject_to_start = EmptyStarts
  /\ result = NoResult
  /\ ExtInit

SpecWide == InitWide /\ [][Next]_vars

\* C16: every entry create_subject_index_map stores in window_to_subject for a
\* window of a subject is that subject's id, without wrap-around, so that
\* subject_to_start[window_to_subject[w]] is the start of the true owner; also
\* for subject ids of 32768 and above.
C16_StoredSubjectIdIsExact ==
  Constructed =>
     \A k \in Rows :
        \A r \in 0..(Windows(table[k].num_samples, L) - 1) :
           LET w == WindowsBefore(table, L, k - 1) + r
           IN  /\ w < Len(window_to_subject)
               /\ OwnerOf(w) = table[k].subject_id
               /\ StartsGet(subject_to_start, OwnerOf(w)).value
                    = WindowsBefore(table, L, k - 1)

(* ---------------- ISRUCPreprocessor.get_sets ---------------- *)
MaxSubjects == 90
MaxRot == 1

RECURSIVE Pow2Floor(_)
\* the largest power of two that is <= q, for q >= 1
Pow2Floor(q) == IF q < 2 THEN 1 ELSE 2 * Pow2Floor(q \div 2)

\* int(n * 0.7) in double precision.  The double nearest 0.7 is 0.7 - 0.4 * 2^-53,
\* so n * 0.7 is 7n/10 - 0.4 n 2^-53 before rounding: when 7n/10 is an integer q
\* the product rounds to the double below q as soon as 0.4 n exceeds Pow2Floor(q),
\* and int() truncates it to q - 1; otherwise the result is floor(7n/10).
IntTimes07(n) ==
  IF n % 10 = 0 /\ n > 0 /\ 4 * (n \div 10) > Pow2Floor((7 * n) \div 10)
  THEN ((7 * n) \div 10) - 1
  ELSE (7 * n) \div 10

\* int(n * 0.15) in double precision: floor(15n/100) for every table size here
IntTimes015(n) == (15 * n) \div 100

\* what one draw of the generator makes of np.random.permutation(m): a rotation
\* of 0..m-1, possibly reversed
Permutation(rule, m) ==
  [i \in 1..m |->
     LET j == ((i - 1 + rule.rot) % m) + 1
     IN  IF rule.rev THEN m + 1 - j ELSE j]

\* np.random.choice(a, size=size, replace=False): a[permutation(len(a))[:size]]
choice(a, size, rule) == [i \in 1..size |-> a[Permutation(rule, Len(a))[i]]]

\* np.setdiff1d(a, b, assume_unique=True): the elements of a not in b, in a's order
setdiff1d(a, b) == SelectSeq(a, LAMBDA v : \A i \in 1..Len(b) : b[i] # v)

\* np.random.seed(42): the generator is back in its first state
np_seed(r) == 0

\* ISRUCPreprocessor.get_sets on the table tbl, the generator being r draws past
\* its first state
isruc_get_sets(tbl, orc, r) ==
  LET r0 == np_seed(np_seed(r))
      train_subjects == choice(tbl, IntTimes07(Len(tbl)), orc[r0 + 1])
      rest == setdiff1d(tbl, train_subjects)
      test_subjects == choice(rest, IntTimes015(Len(tbl)), orc[r0 + 2])
      valid_subjects == setdiff1d(rest, test_subjects)
  IN  [sets |-> [train |-> train_subjects, valid |-> valid_subjects, test |-> test_subjects],
       rng |-> r0 + 2]

Rules == [rot : 0..MaxRot, rev : BOOLEAN]

InitIsruc ==
  /\ table = <<>>
  /\ L = 1
  /\ disk = <<>>
  /\ split_file = NoSplitFile
  /\ pc = "none"
  /\ initErr = "none"
  /\ window_to_subject = <<>>
  /\ subject_to_start = EmptyStarts
  /\ result = NoResult
  /\ kind = "isruc"
  /\ picks = <<"EEG">>
  /\ target_transform = "None"
  /\ labels = <<>>
  /\ item = NoItem
  /\ wpc = [w \in Workers |-> "idle"]
  /\ widx = [w \in Workers |-> 0]
  /\ frame = [w \in Workers |-> NoFrame]
  /\ wres = [w \in Workers |-> NoItem]
  /\ \E n \in 0..MaxSubjects : itable = [i \in 1..n |-> i - 1]
  /\ oracle \in [1..4 -> Rules]
  /\ rng \in {0, 2}
  /\ isets = NoSets
  /\ iprev = NoSets
  /\ icalls = 0

\* preprocessor.get_sets()
IsrucGetSets ==
  /\ icalls < 2
  /\ LET g == isruc_get_sets(itable, oracle, rng)
     IN  /\ isets' = g.sets
         /\ rng' = g.rng
  /\ iprev' = isets
  /\ icalls' = icalls + 1
  /\ UNCHANGED <<itable, oracle>>
  /\ UNCHANGED <<table, L, disk, split_file, pc, initErr, window_to_subject,
                 subject_to_start, result>>
  /\ UNCHANGED <<kind, picks, target_transform, labels, item, wpc, widx, frame, wres>>

SpecIsruc == InitIsruc /\ [][IsrucGetSets]_vars

\* C17: get_sets assigns every subject of the table to exactly one of train,
\* validation and test: the three sets are pairwise disjoint, their union is
\* the table, train has floor(0.7 n) subjects, test has floor(0.15 n), and two
\* calls on the same table return the same three sets.
C17_SeededPartition ==
  icalls >= 1 =>
     /\ ToSet(isets.train) \cap ToSet(isets.valid) = {}
     /\ ToSet(isets.train) \cap ToSet(isets.test) = {}
     /\ ToSet(isets.valid) \cap ToSet(isets.test) = {}
     /\ ToSet(isets.train) \cup ToSet(isets.valid) \cup ToSet(isets.test) = ToSet(itable)
     /\ Cardinality(ToSet(isets.train)) = (7 * Len(itable)) \div 10
     /\ Cardinality(ToSet(isets.test)) = (15 * Len(itable)) \div 100
     /\ (icalls = 2 => isets = iprev)
====
